---- MODULE Spec2Model ----
(***************************************************************************)
(* A model of hue-wheel.v1.0.4.js: the colour converter (roundUp, hsl2rgb, *)
(* rgb2hsl), the hue mapper (getHue) and the pixel loop of drawHueWheel.   *)
(*                                                                         *)
(* JavaScript Numbers are IEEE-754 binary64 values.  The model computes    *)
(* with them exactly as the engine does: a Number is a sign, an integer    *)
(* significand and a binary exponent, every arithmetic operator produces   *)
(* the exact result and rounds it to Prec significant bits, ties to even.  *)
(* Significands do not fit TLC's 32-bit integers, so they are kept as      *)
(* sequences of limbs (naturals below Base, least significant first).      *)
(* NaN, infinities and subnormals are not modelled: no input drawn below   *)
(* produces them.  Zero has no sign; the one place where the sign of a     *)
(* zero decides a result, Math.atan2(-0, x), is handled in atan2.          *)
(***************************************************************************)
EXTENDS Integers, Sequences, FiniteSets, TLC

(***************************************************************************)
(* Natural numbers of any size, as limb sequences.                         *)
(***************************************************************************)
LimbBits == 15
Base == 2^LimbBits

Pow2(n) == 2^n
Min2(a, b) == IF a <= b THEN a ELSE b
Max2(a, b) == IF a >= b THEN a ELSE b
MaxOf(S) == CHOOSE i \in S : \A j \in S : j <= i
MinOf(S) == CHOOSE i \in S : \A j \in S : i <= j

Limb(a, i) == IF 1 <= i /\ i <= Len(a) THEN a[i] ELSE 0
Zeros(n) == [i \in 1..n |-> 0]

\* a without its leading zero limbs
BNorm(a) ==
  LET nz == {i \in 1..Len(a) : a[i] # 0}
  IN  IF nz = {} THEN <<>> ELSE SubSeq(a, 1, MaxOf(nz))

\* between naturals below 2^31 and limb sequences
BFromNat(n) == BNorm(<<n % Base, (n \div Base) % Base, n \div (Base * Base)>>)
BToNat(a) == Limb(a, 1) + Base * Limb(a, 2) + Base * Base * Limb(a, 3)

BCmp(a, b) ==
  IF a = b THEN 0
  ELSE LET top == MaxOf({i \in 1..Max2(Len(a), Len(b)) : Limb(a, i) # Limb(b, i)})
       IN  IF Limb(a, top) > Limb(b, top) THEN 1 ELSE -1

\* a + b: limb i receives a carry when a lower limb generates one and every limb
\* between propagates it
BAdd(a, b) ==
  IF a = <<>> THEN b
  ELSE IF b = <<>> THEN a
  ELSE LET n == Max2(Len(a), Len(b)) + 1
           s == [i \in 1..n |-> Limb(a, i) + Limb(b, i)]
           carry(i) == \E j \in 1..(i - 1) :
                          s[j] >= Base /\ \A k \in (j + 1)..(i - 1) : s[k] = Base - 1
       IN  BNorm([i \in 1..n |-> (s[i] + IF carry(i) THEN 1 ELSE 0) % Base])

\* a - b for a >= b, with the borrows found the same way
BSub(a, b) ==
  IF a = b THEN <<>>
  ELSE IF b = <<>> THEN a
  ELSE LET borrow(i) == \E j \in 1..(i - 1) :
                           a[j] < Limb(b, j)
                             /\ \A k \in (j + 1)..(i - 1) : a[k] = Limb(b, k)
       IN  BNorm([i \in 1..Len(a) |->
                    (a[i] - Limb(b, i) - (IF borrow(i) THEN 1 ELSE 0) + Base) % Base])

\* a * k for 0 <= k < Base
BMulSmall(a, k) ==
  IF a = <<>> \/ k = 0 THEN <<>>
  ELSE IF k = 1 THEN a
  ELSE BAdd(BNorm([i \in 1..Len(a) |-> (a[i] * k) % Base]),
            BNorm(<<0>> \o [i \in 1..Len(a) |-> (a[i] * k) \div Base]))

BShl(a, n) ==
  IF a = <<>> \/ n = 0 THEN a
  ELSE Zeros(n \div LimbBits) \o BMulSmall(a, Pow2(n % LimbBits))

BShr(a, n) ==
  IF a = <<>> \/ n = 0 THEN a
  ELSE LET w == n \div LimbBits
           t == n % LimbBits
       IN  BNorm([i \in 1..Max2(0, Len(a) - w) |->
                    Limb(a, i + w) \div Pow2(t)
                      + (Limb(a, i + w + 1) % Pow2(t)) * Pow2(LimbBits - t)])

NatBitLen(n) == IF n = 0 THEN 0 ELSE MinOf({k \in 1..LimbBits : n < Pow2(k)})

BBitLen(a) == IF a = <<>> THEN 0 ELSE (Len(a) - 1) * LimbBits + NatBitLen(a[Len(a)])

BBit(a, i) == (Limb(a, i \div LimbBits + 1) \div Pow2(i % LimbBits)) % 2

BIsOdd(a) == a # <<>> /\ a[1] % 2 = 1

\* the number of trailing zero bits of a # 0
NatTrailing(n) == MaxOf({k \in 0..LimbBits : n % Pow2(k) = 0})

BTrailing(a) ==
  LET low == MinOf({i \in 1..Len(a) : a[i] # 0})
  IN  (low - 1) * LimbBits + NatTrailing(a[low])

\* a * b: the partial products a * b[i] * Base^(i-1), summed from the top limb of
\* b down into acc
RECURSIVE BMulFrom(_, _, _, _)
BMulFrom(a, b, i, acc) ==
  IF i = 0 THEN acc
  ELSE BMulFrom(a, b, i - 1, BAdd(acc, BNorm(Zeros(i - 1) \o BMulSmall(a, b[i]))))

BMul(a, b) == IF a = <<>> \/ b = <<>> THEN <<>> ELSE BMulFrom(a, b, Len(b), <<>>)

\* the quotient limb of r by d, for r < Base * d and d's top limb at least Base / 2:
\* the estimate from the leading limbs is the limb or exceeds it by at most two
QuotDigit(r, d) ==
  LET t    == Len(d)
      qhat == Min2((Limb(r, t + 1) * Base + Limb(r, t)) \div d[t], Base - 1)
  IN  IF BCmp(BMulSmall(d, qhat), r) <= 0 THEN qhat
      ELSE IF BCmp(BMulSmall(d, qhat - 1), r) <= 0 THEN qhat - 1
      ELSE qhat - 2

\* <<quotient limbs, remainder>> of limbs 1..i of n, after remainder r, by d
\* (q holds the quotient limbs found so far; every remainder is below d)
RECURSIVE BDivModFrom(_, _, _, _, _)
BDivModFrom(n, d, i, q, r) ==
  IF i = 0 \/ BCmp(r, d) >= 0 THEN <<q, r>>
  ELSE LET r2 == BNorm(<<n[i]>> \o r)
           qd == QuotDigit(r2, d)
       IN  BDivModFrom(n, d, i - 1, <<qd>> \o q, BSub(r2, BMulSmall(d, qd)))

\* <<quotient, remainder>> of n by d # 0: long division of the operands shifted
\* so that d's top limb is at least Base / 2
BDivMod(n, d) ==
  LET sh == LimbBits - NatBitLen(d[Len(d)])
      dn == BShl(d, sh)
      nn == BShl(n, sh)
      qr == BDivModFrom(nn, dn, Len(nn), <<>>, <<>>)
  IN  <<BNorm(qr[1]), BShr(qr[2], sh)>>

(***************************************************************************)
(* Numbers: sgn is 0 (non-negative) or 1, the value is man * 2^exp.  A     *)
(* Number is kept canonical (man odd, or zero with exp = 0), so equality   *)
(* of records is equality of values.                                       *)
(***************************************************************************)
Prec == 53

FZero == [sgn |-> 0, man |-> <<>>, exp |-> 0]

Canon(s, m, e) ==
  IF m = <<>> THEN FZero
  ELSE LET t == BTrailing(m)
       IN  [sgn |-> s, man |-> BShr(m, t), exp |-> e + t]

\* the exact value m * 2^e rounded to Prec bits, ties to even
Round(s, m, e) ==
  IF m = <<>> \/ BBitLen(m) <= Prec THEN Canon(s, m, e)
  ELSE LET d    == BBitLen(m) - Prec
           q    == BShr(m, d)
           half == BBit(m, d - 1) = 1
           rest == BShl(BShr(m, d - 1), d - 1) # m
           up   == half /\ (rest \/ BIsOdd(q))
       IN  Canon(s, IF up THEN BAdd(q, <<1>>) ELSE q, e + d)

FromInt(n) == IF n >= 0 THEN Canon(0, BFromNat(n), 0) ELSE Canon(1, BFromNat(-n), 0)

\* the significand of x at exponent e <= x.exp
ManAt(x, e) == BShl(x.man, x.exp - e)

\* -1, 0, 1 as |x| is below, equal to, above |y|
CmpAbs(x, y) ==
  IF x.man = y.man /\ x.exp = y.exp THEN 0
  ELSE LET e == Min2(x.exp, y.exp) IN BCmp(ManAt(x, e), ManAt(y, e))

FCmp(x, y) ==
  IF x.sgn # y.sgn
  THEN (IF x.man = <<>> /\ y.man = <<>> THEN 0 ELSE IF x.sgn = 1 THEN -1 ELSE 1)
  ELSE IF x.sgn = 0 THEN CmpAbs(x, y) ELSE -CmpAbs(x, y)

FLt(x, y) == FCmp(x, y) < 0
FLe(x, y) == FCmp(x, y) <= 0
FGe(x, y) == FCmp(x, y) >= 0
FGt(x, y) == FCmp(x, y) > 0

FNeg(x) == IF x.man = <<>> THEN x ELSE [x EXCEPT !.sgn = 1 - x.sgn]
FAbs(x) == [x EXCEPT !.sgn = 0]

\* the exact sum, before rounding, as <<sgn, man, exp>>
ExactSum(x, y) ==
  LET e  == Min2(x.exp, y.exp)
      mx == ManAt(x, e)
      my == ManAt(y, e)
  IN  IF x.sgn = y.sgn THEN <<x.sgn, BAdd(mx, my), e>>
      ELSE IF BCmp(mx, my) >= 0 THEN <<x.sgn, BSub(mx, my), e>>
      ELSE <<y.sgn, BSub(my, mx), e>>

FAdd(x, y) ==
  IF x = FZero THEN y
  ELSE IF y = FZero THEN x
  ELSE LET r == ExactSum(x, y) IN Round(r[1], r[2], r[3])
FSub(x, y) == FAdd(x, FNeg(y))

FMul(x, y) ==
  IF x = FZero \/ y = FZero THEN FZero
  ELSE Round((x.sgn + y.sgn) % 2, BMul(x.man, y.man), x.exp + y.exp)

\* x / y for y # 0: a quotient of at least Prec + 2 bits and a sticky bit
FDiv(x, y) ==
  IF x = FZero THEN FZero
  ELSE IF y.man = <<1>> THEN [x EXCEPT !.sgn = (x.sgn + y.sgn) % 2, !.exp = x.exp - y.exp]
  ELSE LET k  == Max2(0, Prec + 2 + BBitLen(y.man) - BBitLen(x.man))
           qr == BDivMod(BShl(x.man, k), y.man)
           m  == BAdd(BMulSmall(qr[1], 2), IF qr[2] = <<>> THEN <<>> ELSE <<1>>)
       IN  Round((x.sgn + y.sgn) % 2, m, x.exp - y.exp - k - 1)

\* x % y: the remainder of the truncated division, with the sign of x (exact)
FMod(x, y) ==
  IF x = FZero \/ CmpAbs(x, y) < 0 THEN x
  ELSE LET e == Min2(x.exp, y.exp)
       IN  Canon(x.sgn, BDivMod(ManAt(x, e), ManAt(y, e))[2], e)

\* Math.floor(x) and Math.ceil(x), as integers
IntPart(x) == IF x.exp >= 0 THEN BToNat(BShl(x.man, x.exp)) ELSE BToNat(BShr(x.man, -x.exp))
IsInt(x) == x.exp >= 0

Floor(x) ==
  IF x.sgn = 0 THEN IntPart(x)
  ELSE IF IsInt(x) THEN -IntPart(x) ELSE -IntPart(x) - 1

Ceil(x) ==
  IF x.sgn = 1 THEN -IntPart(x)
  ELSE IF IsInt(x) THEN IntPart(x) ELSE IntPart(x) + 1

\* the Number a decimal literal n/d denotes: the nearest to the quotient
Dec(n, d) == FDiv(FromInt(n), FromInt(d))

\* Const(v, Rest): the value of Rest(v) with v evaluated first, as the statement
\* `const name = v;` is evaluated before the statements that follow it
Const(v, Rest(_)) == CHOOSE r \in {Rest(w) : w \in {v}} : TRUE

F0   == FZero
F1   == FromInt(1)
F2   == FromInt(2)
F4   == FromInt(4)
F60  == FromInt(60)
F100 == FromInt(100)
F255 == FromInt(255)
F360 == FromInt(360)
Half == Dec(5, 10)

(***************************************************************************)
(* roundUp(num, at): at is an integer, the result is an integer.           *)
(***************************************************************************)
\* Math.ceil in the place of roundUp
roundUpCeil(num, at) == Ceil(num)

roundUp(num, at) ==
  Const(FMul(FromInt(10 - at), Dec(1, 10)), LAMBDA add_on :
    IF FGe(FAdd(num, add_on), FromInt(Ceil(num))) THEN Ceil(num) ELSE Floor(num))

(***************************************************************************)
(* hsl2rgb(hue, sat, lig): three Numbers in, three integers out.           *)
(***************************************************************************)
\* the switch of lines 41-72 with case 6 a copy of case 4
IntermediateRgbSixAsFour(sector, chroma, intermediate_value) ==
  CASE sector = 0 -> <<chroma, intermediate_value, F0>>
    [] sector = 1 -> <<intermediate_value, chroma, F0>>
    [] sector = 2 -> <<F0, chroma, intermediate_value>>
    [] sector = 3 -> <<F0, intermediate_value, chroma>>
    [] sector = 4 -> <<intermediate_value, F0, chroma>>
    [] sector = 5 -> <<chroma, F0, intermediate_value>>
    [] sector = 6 -> <<intermediate_value, F0, chroma>>
    [] OTHER      -> <<F0, F0, F0>>

\* the switch of lines 41-72 with the default a copy of case 0 at its start
IntermediateRgbRedDefault(sector, chroma, intermediate_value) ==
  CASE sector = 0 -> <<chroma, intermediate_value, F0>>
    [] sector = 1 -> <<intermediate_value, chroma, F0>>
    [] sector = 2 -> <<F0, chroma, intermediate_value>>
    [] sector = 3 -> <<F0, intermediate_value, chroma>>
    [] sector = 4 -> <<intermediate_value, F0, chroma>>
    [] sector = 5 -> <<chroma, F0, intermediate_value>>
    [] sector = 6 -> <<chroma, F0, intermediate_value>>
    [] OTHER      -> <<chroma, F0, F0>>

IntermediateRgb(sector, chroma, intermediate_value) ==
  CASE sector = 0 -> <<chroma, intermediate_value, F0>>
    [] sector = 1 -> <<intermediate_value, chroma, F0>>
    [] sector = 2 -> <<F0, chroma, intermediate_value>>
    [] sector = 3 -> <<F0, intermediate_value, chroma>>
    [] sector = 4 -> <<intermediate_value, F0, chroma>>
    [] sector = 5 -> <<chroma, F0, intermediate_value>>
    [] sector = 6 -> <<chroma, F0, intermediate_value>>
    [] OTHER      -> <<F0, F0, F0>>

Chroma(sat, lig) == FMul(FSub(F1, FAbs(FSub(FMul(F2, lig), F1))), sat)

AddOn(chroma, lig) == FSub(lig, FMul(chroma, Half))

Channel(v, add_on) == Floor(FMul(FAdd(v, add_on), F255))

hsl2rgb(hue, sat, lig) ==
  Const(Chroma(sat, lig), LAMBDA chroma :
  Const(FDiv(hue, F60), LAMBDA intermediate_hue :
  Const(FMod(intermediate_hue, F2), LAMBDA rem2 :
  Const(FMul(chroma, FSub(F1, FAbs(FSub(rem2, F1)))), LAMBDA intermediate_value :
  Const(AddOn(chroma, lig), LAMBDA add_on :
  Const(IntermediateRgb(Floor(intermediate_hue), chroma, intermediate_value),
        LAMBDA intermediate_rgb :
    <<Channel(intermediate_rgb[1], add_on),
      Channel(intermediate_rgb[2], add_on),
      Channel(intermediate_rgb[3], add_on)>>))))))

(***************************************************************************)
(* rgb2hsl(R, G, B): three integers in; the result is <<hue, saturation,   *)
(* lightness>>, hue an integer (roundUp's result) and the other two        *)
(* Numbers (roundUp's result times 0.01).  UnroundedHsl is the triple      *)
(* before the three roundUp calls.                                         *)
(***************************************************************************)
FMax(x, y) == IF FGe(x, y) THEN x ELSE y
FMin(x, y) == IF FLe(x, y) THEN x ELSE y

\* lines 108-116 with the offsets of the green and the blue branch exchanged
RawHueOffsetsExchanged(r, g, b, MAX, MIN) ==
  IF MAX = MIN THEN F0
  ELSE Const(FSub(MAX, MIN), LAMBDA range :
         IF MAX = r THEN FDiv(FMul(F60, FSub(g, b)), range)
         ELSE IF MAX = g THEN FMul(F60, FAdd(F4, FDiv(FSub(b, r), range)))
         ELSE FMul(F60, FAdd(F2, FDiv(FSub(r, g), range))))

RawHue(r, g, b, MAX, MIN) ==
  IF MAX = MIN THEN F0
  ELSE Const(FSub(MAX, MIN), LAMBDA range :
         IF MAX = r THEN FDiv(FMul(F60, FSub(g, b)), range)
         ELSE IF MAX = g THEN FMul(F60, FAdd(F2, FDiv(FSub(b, r), range)))
         ELSE FMul(F60, FAdd(F4, FDiv(FSub(r, g), range))))

Saturation(MAX, MIN, lightness) ==
  IF MAX = F0 \/ MIN = F1 THEN F0
  ELSE FDiv(FSub(MAX, lightness), FMin(lightness, FSub(F1, lightness)))

UnroundedHsl(R, G, B) ==
  Const(FDiv(FromInt(R), F255), LAMBDA r :
  Const(FDiv(FromInt(G), F255), LAMBDA g :
  Const(FDiv(FromInt(B), F255), LAMBDA b :
  Const(FMax(FMax(r, g), b), LAMBDA MAX :
  Const(FMin(FMin(r, g), b), LAMBDA MIN :
  Const(RawHue(r, g, b, MAX, MIN), LAMBDA h0 :
  Const(IF FLt(h0, F0) THEN FAdd(h0, F360) ELSE h0, LAMBDA hue :
  Const(FMul(FAdd(MAX, MIN), Half), LAMBDA lightness :
  Const(Saturation(MAX, MIN, lightness), LAMBDA saturation :
    <<hue, saturation, lightness>>)))))))))

rgb2hsl(R, G, B) ==
  Const(UnroundedHsl(R, G, B), LAMBDA u :
  Const(roundUp(u[1], 5), LAMBDA h :
  Const(FMul(FromInt(roundUp(FMul(u[2], F100), 5)), Dec(1, 100)), LAMBDA s :
  Const(FMul(FromInt(roundUp(FMul(u[3], F100), 5)), Dec(1, 100)), LAMBDA l :
    <<h, s, l>>))))

(***************************************************************************)
(* getHue(redStart, theta, style): Numbers in, a Number out; style is an   *)
(* integer.  theta || 1 is 1 when theta is 0.                              *)
(***************************************************************************)
getHue(redStart, theta, style) ==
  Const(IF theta = F0 THEN F1 ELSE theta, LAMBDA temp0 :
  Const(IF style # 0
        THEN FMod(FSub(FAdd(F360, FMul(F2, redStart)), temp0), F360)
        ELSE temp0, LAMBDA temp :
    FMod(FSub(FAdd(F360, temp), redStart), F360)))

(***************************************************************************)
(* Math.PI and Math.atan2.  ECMAScript leaves the last place of            *)
(* Math.atan2 to the engine; the model takes the Number nearest to the     *)
(* exact arctangent, tabulated for the directions <<a, b>>, a > 0, in      *)
(* lowest terms, of the offsets the loops below visit.                     *)
(***************************************************************************)
Num(m, e) == [sgn |-> 0, man |-> m, exp |-> e]

PI == Num(<<1443, 21777, 4349, 25>>, -48)

Abs(n) == IF n < 0 THEN -n ELSE n

Gcd(a, b) == MaxOf({d \in 1..Max2(a, b) : a % d = 0 /\ b % d = 0})

AtanTable ==
  <<1, -10>> :> Num(<<2907, 16429, 11192, 97>>, -50)
  @@ <<1, -9>> :> Num(<<7287, 9960, 32108, 193>>, -51)
  @@ <<1, -8>> :> Num(<<19357, 32477, 3381, 193>>, -51)
  @@ <<1, -7>> :> Num(<<25797, 26620, 32448, 95>>, -50)
  @@ <<1, -6>> :> Num(<<12725, 23552, 8067, 95>>, -50)
  @@ <<1, -5>> :> Num(<<5975, 19757, 18139, 23>>, -48)
  @@ <<1, -4>> :> Num(<<12933, 29873, 22663, 92>>, -50)
  @@ <<1, -3>> :> Num(<<22095, 12271, 3849, 45>>, -49)
  @@ <<1, -2>> :> Num(<<31447, 29591, 22748, 85>>, -50)
  @@ <<1, -1>> :> Num(<<4329, 32563, 13048, 75>>, -50)
  @@ <<1, 0>> :> Num(<<1443, 21777, 4349, 25>>, -49)
  @@ <<1, 1>> :> Num(<<1443, 21777, 4349, 25>>, -50)
  @@ <<1, 2>> :> Num(<<15183, 2755, 12700, 237>>, -54)
  @@ <<1, 3>> :> Num(<<7905, 17997, 24126, 164>>, -54)
  @@ <<1, 4>> :> Num(<<221, 29273, 28119, 250>>, -55)
  @@ <<1, 5>> :> Num(<<9739, 29166, 4359, 202>>, -55)
  @@ <<1, 6>> :> Num(<<6877, 2169, 3678, 169>>, -55)
  @@ <<1, 7>> :> Num(<<14557, 2284, 9915, 145>>, -55)
  @@ <<1, 8>> :> Num(<<6071, 6828, 11125, 127>>, -55)
  @@ <<1, 9>> :> Num(<<8515, 832, 5378, 14>>, -52)
  @@ <<1, 10>> :> Num(<<13075, 16753, 994, 51>>, -54)
  @@ <<2, -9>> :> Num(<<12143, 27029, 25125, 46>>, -49)
  @@ <<2, -7>> :> Num(<<28079, 10324, 20492, 91>>, -50)
  @@ <<2, -5>> :> Num(<<14827, 18029, 17110, 5>>, -46)
  @@ <<2, -3>> :> Num(<<5171, 15749, 14082, 163>>, -51)
  @@ <<2, -1>> :> Num(<<9979, 2766, 3349, 65>>, -50)
  @@ <<2, 1>> :> Num(<<28561, 18805, 14049, 35>>, -50)
  @@ <<2, 3>> :> Num(<<25493, 11276, 17323, 150>>, -53)
  @@ <<2, 5>> :> Num(<<7671, 15195, 1443, 3>>, -48)
  @@ <<2, 7>> :> Num(<<18151, 24442, 8018, 71>>, -53)
  @@ <<2, 9>> :> Num(<<30145, 9005, 30048, 223>>, -55)
  @@ <<3, -10>> :> Num(<<2791, 480, 26250, 22>>, -48)
  @@ <<3, -8>> :> Num(<<18589, 11271, 1648, 89>>, -50)
  @@ <<3, -7>> :> Num(<<2245, 27808, 18822, 87>>, -50)
  @@ <<3, -5>> :> Num(<<12111, 15852, 6630, 5>>, -46)
  @@ <<3, -4>> :> Num(<<21547, 30391, 32642, 4>>, -46)
  @@ <<3, -2>> :> Num(<<12145, 16199, 5345, 138>>, -51)
  @@ <<3, -1>> :> Num(<<21713, 31259, 8060, 242>>, -52)
  @@ <<3, 1>> :> Num(<<21547, 30391, 32642, 4>>, -47)
  @@ <<3, 2>> :> Num(<<30363, 9475, 19503, 251>>, -53)
  @@ <<3, 4>> :> Num(<<7905, 17997, 24126, 164>>, -53)
  @@ <<3, 5>> :> Num(<<3297, 11250, 11383, 138>>, -53)
  @@ <<3, 7>> :> Num(<<23665, 31297, 9980, 207>>, -54)
  @@ <<3, 8>> :> Num(<<24305, 969, 22629, 183>>, -54)
  @@ <<3, 10>> :> Num(<<22403, 26142, 20084, 74>>, -53)
  @@ <<4, -9>> :> Num(<<22991, 21748, 4842, 87>>, -50)
  @@ <<4, -7>> :> Num(<<26331, 159, 27413, 167>>, -51)
  @@ <<4, -5>> :> Num(<<19613, 24577, 15388, 39>>, -49)
  @@ <<4, -3>> :> Num(<<28561, 18805, 14049, 35>>, -49)
  @@ <<4, -1>> :> Num(<<28493, 2484, 3434, 58>>, -50)
  @@ <<4, 1>> :> Num(<<7421, 10813, 23090, 169>>, -52)
  @@ <<4, 3>> :> Num(<<15183, 2755, 12700, 237>>, -53)
  @@ <<4, 5>> :> Num(<<30025, 20739, 12020, 86>>, -52)
  @@ <<4, 7>> :> Num(<<6387, 8098, 29537, 132>>, -53)
  @@ <<4, 9>> :> Num(<<19407, 29943, 4287, 214>>, -54)
  @@ <<5, -9>> :> Num(<<7395, 21905, 4977, 42>>, -49)
  @@ <<5, -8>> :> Num(<<28011, 21144, 10209, 165>>, -51)
  @@ <<5, -7>> :> Num(<<28119, 22493, 8541, 1>>, -44)
  @@ <<5, -6>> :> Num(<<26939, 25415, 9808, 78>>, -50)
  @@ <<5, -4>> :> Num(<<4401, 31942, 23408, 143>>, -51)
  @@ <<5, -3>> :> Num(<<5745, 4048, 25541, 33>>, -49)
  @@ <<5, -2>> :> Num(<<16785, 19399, 7236, 31>>, -49)
  @@ <<5, -1>> :> Num(<<2285, 4963, 5383, 113>>, -51)
  @@ <<5, 1>> :> Num(<<18519, 10826, 26060, 175>>, -52)
  @@ <<5, 2>> :> Num(<<18869, 24154, 1462, 19>>, -49)
  @@ <<5, 3>> :> Num(<<29909, 6737, 15926, 16>>, -49)
  @@ <<5, 4>> :> Num(<<14287, 22404, 22776, 114>>, -52)
  @@ <<5, 6>> :> Num(<<13637, 17393, 30359, 88>>, -52)
  @@ <<5, 7>> :> Num(<<1633, 26218, 25685, 158>>, -53)
  @@ <<5, 8>> :> Num(<<16301, 21999, 24587, 35>>, -51)
  @@ <<5, 9>> :> Num(<<26161, 18701, 26778, 129>>, -53)
  @@ <<6, -7>> :> Num(<<11681, 10250, 23260, 155>>, -51)
  @@ <<6, -5>> :> Num(<<28975, 13884, 32578, 144>>, -51)
  @@ <<6, -1>> :> Num(<<28701, 8805, 18030, 55>>, -50)
  @@ <<6, 1>> :> Num(<<6589, 18297, 30241, 179>>, -52)
  @@ <<6, 5>> :> Num(<<30675, 25750, 4437, 112>>, -52)
  @@ <<6, 7>> :> Num(<<32223, 503, 13380, 181>>, -53)
  @@ <<7, -10>> :> Num(<<14317, 4554, 31964, 161>>, -51)
  @@ <<7, -9>> :> Num(<<16807, 21512, 12372, 79>>, -50)
  @@ <<7, -8>> :> Num(<<7051, 17868, 1861, 155>>, -51)
  @@ <<7, -6>> :> Num(<<17793, 30000, 15425, 36>>, -49)
  @@ <<7, -5>> :> Num(<<22025, 887, 1859, 35>>, -49)
  @@ <<7, -4>> :> Num(<<23753, 31788, 24782, 133>>, -51)
  @@ <<7, -3>> :> Num(<<6413, 4550, 7275, 63>>, -50)
  @@ <<7, -2>> :> Num(<<13347, 22033, 5605, 59>>, -50)
  @@ <<7, -1>> :> Num(<<15629, 5737, 26417, 54>>, -50)
  @@ <<7, 1>> :> Num(<<26109, 30570, 29461, 182>>, -52)
  @@ <<7, 2>> :> Num(<<2469, 30923, 14403, 165>>, -52)
  @@ <<7, 3>> :> Num(<<32127, 17021, 10123, 37>>, -50)
  @@ <<7, 4>> :> Num(<<8351, 22711, 20028, 134>>, -52)
  @@ <<7, 5>> :> Num(<<13629, 9898, 6840, 15>>, -49)
  @@ <<7, 6>> :> Num(<<11817, 10124, 11723, 110>>, -52)
  @@ <<7, 8>> :> Num(<<4493, 25276, 167, 46>>, -51)
  @@ <<7, 9>> :> Num(<<10027, 477, 7440, 169>>, -53)
  @@ <<7, 10>> :> Num(<<21677, 23287, 11332, 156>>, -53)
  @@ <<8, -9>> :> Num(<<7895, 30779, 9122, 77>>, -50)
  @@ <<8, -7>> :> Num(<<10265, 14080, 17566, 146>>, -51)
  @@ <<8, -5>> :> Num(<<22073, 10803, 9218, 136>>, -51)
  @@ <<8, -3>> :> Num(<<22837, 21086, 24449, 61>>, -50)
  @@ <<8, -1>> :> Num(<<28687, 31709, 32091, 216>>, -52)
  @@ <<8, 1>> :> Num(<<27169, 21810, 4734, 185>>, -52)
  @@ <<8, 3>> :> Num(<<15703, 485, 25717, 38>>, -50)
  @@ <<8, 5>> :> Num(<<22239, 32340, 25578, 64>>, -51)
  @@ <<8, 7>> :> Num(<<5117, 17952, 3387, 218>>, -53)
  @@ <<8, 9>> :> Num(<<15785, 24647, 669, 186>>, -53)
  @@ <<9, -10>> :> Num(<<11305, 21637, 5300, 154>>, -51)
  @@ <<9, -8>> :> Num(<<763, 1579, 16975, 73>>, -50)
  @@ <<9, -7>> :> Num(<<16471, 21691, 27450, 142>>, -51)
  @@ <<9, -5>> :> Num(<<31235, 21712, 20419, 16>>, -48)
  @@ <<9, -4>> :> Num(<<18435, 10609, 21255, 63>>, -50)
  @@ <<9, -2>> :> Num(<<28861, 19150, 10345, 14>>, -48)
  @@ <<9, -1>> :> Num(<<20059, 11208, 7407, 215>>, -52)
  @@ <<9, 1>> :> Num(<<3029, 9544, 29419, 186>>, -52)
  @@ <<9, 2>> :> Num(<<2675, 1313, 13386, 5>>, -47)
  @@ <<9, 4>> :> Num(<<14885, 11082, 17341, 147>>, -52)
  @@ <<9, 5>> :> Num(<<93, 26626, 8713>>, -43)
  @@ <<9, 7>> :> Num(<<22915, 10137, 14693, 116>>, -52)
  @@ <<9, 8>> :> Num(<<5009, 19993, 423, 27>>, -50)
  @@ <<9, 10>> :> Num(<<479, 10246, 26225, 93>>, -52)
  @@ <<10, -9>> :> Num(<<26079, 27153, 28107, 36>>, -49)
  @@ <<10, -7>> :> Num(<<8567, 32096, 14816, 17>>, -48)
  @@ <<10, -3>> :> Num(<<27757, 28107, 6035, 119>>, -51)
  @@ <<10, -1>> :> Num(<<23005, 30948, 26853, 213>>, -52)
  @@ <<10, 1>> :> Num(<<21, 5643, 2493, 47>>, -50)
  @@ <<10, 3>> :> Num(<<343, 30073, 24754, 163>>, -52)
  @@ <<10, 7>> :> Num(<<1411, 30233, 25493, 245>>, -53)
  @@ <<10, 9>> :> Num(<<11065, 130, 8572, 107>>, -52)

\* Math.atan2(a, b) for integers a, b.  The only caller passes a = -y, and the
\* negation of the integer 0 is -0: atan2(-0, b) is -PI for b < 0 and -0 otherwise
atan2(a, b) ==
  IF a = 0 THEN (IF b < 0 THEN FNeg(PI) ELSE F0)
  ELSE LET g == Gcd(Abs(a), Abs(b))
           t == AtanTable[<<Abs(a) \div g, IF b < 0 THEN -(Abs(b) \div g) ELSE b \div g>>]
       IN  IF a > 0 THEN t ELSE FNeg(t)

(***************************************************************************)
(* drawHueWheel.  A configuration c is the parameter object with its       *)
(* defaults applied, plus scale, the window's devicePixelRatio.            *)
(***************************************************************************)
OuterRadius(c) == (c.inner_radius + c.thickness) * c.scale
InnerRadius(c) == c.inner_radius * c.scale

\* ctx.createImageData(w, h).data: w * h * 4 bytes, all zero
createImageData(w, h) == [i \in 0..(w * h * 4 - 1) |-> 0]

\* the test of line 231 without its second half
SkipsBeyondRimOnly(c, x, y) == x * x + y * y > OuterRadius(c) * OuterRadius(c)

\* the test of line 231: the iteration at (x, y) skips to the next one
Skips(c, x, y) ==
  LET square_o == OuterRadius(c) * OuterRadius(c)
      square_i == InnerRadius(c) * InnerRadius(c)
      square_d == x * x + y * y
  IN  square_d > square_o \/ square_d < square_i

\* the index of line 244 with the rows half as long as they are
IndexShortRows(c, x, y) ==
  LET r_len      == OuterRadius(c)
      adjusted_x == x + OuterRadius(c)
      adjusted_y == y + OuterRadius(c)
  IN  (adjusted_y * r_len + adjusted_x) * 4

Index(c, x, y) ==
  LET r_len      == 2 * OuterRadius(c)
      adjusted_x == x + OuterRadius(c)
      adjusted_y == y + OuterRadius(c)
  IN  (adjusted_y * r_len + adjusted_x) * 4

Theta(x, y) ==
  Const(FDiv(FMul(atan2(-y, x), F360), FMul(F2, PI)), LAMBDA degrees :
    FMod(FAdd(F360, degrees), F360))

PixelRgb(c, x, y) ==
  Const(Theta(x, y), LAMBDA theta :
  Const(getHue(FromInt(c.redStart), theta, c.style), LAMBDA hue :
    hsl2rgb(hue, c.saturation, c.lightness)))

\* a store into a Uint8ClampedArray clamps the value to 0..255
Clamp(v) == IF v < 0 THEN 0 ELSE IF v > 255 THEN 255 ELSE v

\* lines 269-272; a store past the end of a typed array is ignored
WritePixel(data, index, rgb, opacity) ==
  [i \in DOMAIN data |->
     IF i = index + 0 THEN Clamp(rgb[1])
     ELSE IF i = index + 1 THEN Clamp(rgb[2])
     ELSE IF i = index + 2 THEN Clamp(rgb[3])
     ELSE IF i = index + 3 THEN Clamp(opacity)
     ELSE data[i]]

\* one iteration of the inner loop, lines 226-273
LoopBody(data, c, x, y) ==
  IF Skips(c, x, y) THEN data
  ELSE WritePixel(data, Index(c, x, y), PixelRgb(c, x, y), c.opacity)

(***************************************************************************)
(* The render as a state machine.  pc is the position in drawHueWheel; cfg *)
(* is its argument with the defaults applied; pixels is image.data, <<>>   *)
(* before the image is created; canvas is the bitmap of the canvas, <<>>   *)
(* until putImageData copies the image onto it.  The loop of lines         *)
(* 225-274 visits the offsets in the order k = 0, 1, ... with x the slow   *)
(* coordinate.  plan says how the iterations are shared out: with one      *)
(* worker they run in the order of the source; with several, worker w runs *)
(* the iterations of its rows or tiles, in order, interleaved with the     *)
(* iterations of the other workers.  cursor[w] is the next iteration of    *)
(* worker w.                                                               *)
(***************************************************************************)
VARIABLES pc, cfg, plan, cursor, pixels, canvas,
          hsl, rgb, back, arg, hue, last

vars == <<pc, cfg, plan, cursor, pixels, canvas, hsl, rgb, back, arg, hue, last>>

drawVars == <<pc, cfg, plan, cursor, pixels, canvas>>
convVars == <<hsl, rgb, back>>
hueVars  == <<arg, hue, last>>

MaxInner     == 1
MaxThickness == 2
MaxWorkers   == 2

\* window.devicePixelRatio: 1 on a normal screen, 2 on a HiDPI screen
Scales == {1, 2}

\* redStart, style, saturation, lightness, opacity: the defaults of line 170,
\* and a dark, half transparent wheel running the other way
Colours ==
  { [redStart |-> 90, style |-> 0, saturation |-> F1, lightness |-> Half,
     opacity |-> 255],
    [redStart |-> 0, style |-> 1, saturation |-> F1, lightness |-> Dec(15, 100),
     opacity |-> 128] }

Config(i, t, sc, col) ==
  [inner_radius |-> i, thickness |-> t, scale |-> sc, redStart |-> col.redStart,
   style |-> col.style, saturation |-> col.saturation,
   lightness |-> col.lightness, opacity |-> col.opacity]

Configs ==
  {Config(i, t, sc, col) : i \in 0..MaxInner, t \in 1..MaxThickness,
                           sc \in Scales, col \in Colours}

\* the wheels small enough to follow every interleaving of their iterations
ParallelConfigs == {c \in Configs : OuterRadius(c) = 2}

Plans == [workers : 2..MaxWorkers, kind : {"row", "tile"}]

\* the number of iterations of the two loops, and the offsets of iteration k
Iterations(c) == (2 * OuterRadius(c)) * (2 * OuterRadius(c))
LoopX(c, k) == (k \div (2 * OuterRadius(c))) - OuterRadius(c)
LoopY(c, k) == (k % (2 * OuterRadius(c))) - OuterRadius(c)

\* the worker that runs iteration k: rows are dealt out in turn, tiles are the
\* four quadrants dealt out in turn
Owner(c, p, k) ==
  IF p.kind = "row"
  THEN ((LoopY(c, k) + OuterRadius(c)) % p.workers) + 1
  ELSE (((IF LoopX(c, k) < 0 THEN 0 ELSE 1) + (IF LoopY(c, k) < 0 THEN 0 ELSE 2))
          % p.workers) + 1

\* the first iteration of worker w at or after k; Iterations(c) when none is left
NextOwned(c, p, w, k) ==
  MinOf({j \in k..Iterations(c) : j = Iterations(c) \/ Owner(c, p, j) = w})

NoCall == <<>>

InitDraw(cs, ps) ==
  /\ pc = "setup"
  /\ cfg \in cs
  /\ plan \in ps
  /\ cursor = <<>>
  /\ pixels = <<>>
  /\ canvas = <<>>
  /\ hsl = NoCall /\ rgb = NoCall /\ back = NoCall
  /\ arg = NoCall /\ hue = NoCall /\ last = NoCall

Init == InitDraw(Configs, {[workers |-> 1, kind |-> "row"]})

InitWorkers == InitDraw(ParallelConfigs, Plans)

\* lines 181-222: the canvas is sized and the image created
Setup ==
  /\ pc = "setup"
  /\ pixels' = createImageData(2 * OuterRadius(cfg), 2 * OuterRadius(cfg))
  /\ cursor' = [w \in 1..plan.workers |-> NextOwned(cfg, plan, w, 0)]
  /\ pc' = "loop"
  /\ UNCHANGED <<cfg, plan, canvas, hsl, rgb, back, arg, hue, last>>

\* lines 225-274: one iteration of the inner loop
Iterate(w) ==
  /\ pc = "loop"
  /\ cursor[w] < Iterations(cfg)
  /\ pixels' = LoopBody(pixels, cfg, LoopX(cfg, cursor[w]), LoopY(cfg, cursor[w]))
  /\ cursor' = [cursor EXCEPT ![w] = NextOwned(cfg, plan, w, cursor[w] + 1)]
  /\ UNCHANGED <<pc, cfg, plan, canvas, hsl, rgb, back, arg, hue, last>>

\* line 282: the loops are over and the image goes onto the canvas
PutImageData ==
  /\ pc = "loop"
  /\ \A w \in 1..plan.workers : cursor[w] = Iterations(cfg)
  /\ canvas' = pixels
  /\ pc' = "done"
  /\ UNCHANGED <<cfg, plan, cursor, pixels, hsl, rgb, back, arg, hue, last>>

Next ==
  \/ Setup
  \/ \E w \in 1..plan.workers : Iterate(w)
  \/ PutImageData

Spec == Init /\ [][Next]_vars

SpecWorkers == InitWorkers /\ [][Next]_vars

(***************************************************************************)
(* A caller of the converters: it holds an HSL colour, calls hsl2rgb on it *)
(* and rgb2hsl on the result, or holds an RGB colour and calls rgb2hsl.    *)
(* hsl, rgb and back are the colour, the channels and the colour that came *)
(* back; NoCall where there is none yet.                                   *)
(***************************************************************************)
HueDiv  == 12
SatDiv  == 2
LigStep == 15
RgbDiv  == 5

\* hues 1 / HueDiv of a turn apart, from below 0 to beyond 420
HueInputs ==
  {FDiv(FromInt(360 * k), FromInt(HueDiv)) :
     k \in (-2)..(HueDiv + HueDiv \div 6 + 1)}

SatInputs == {Dec(k, SatDiv) : k \in 0..SatDiv}

\* lightness in steps of LigStep percent, and 1
LigInputs == {Dec(k, 100) : k \in {j \in 0..100 : j % LigStep = 0 \/ j = 100}}

HslInputs == {<<h, sa, l>> : h \in HueInputs, sa \in SatInputs, l \in LigInputs}

ChannelInputs == {(255 * k) \div RgbDiv : k \in 0..RgbDiv}

\* a grid of channels, a colour a hair off red and one a half degree off it
RgbInputs ==
  (ChannelInputs \X ChannelInputs \X ChannelInputs)
    \cup {<<255, 0, 1>>, <<132, 13, 12>>}

Idle ==
  /\ cfg = NoCall /\ plan = NoCall /\ cursor = NoCall
  /\ pixels = NoCall /\ canvas = NoCall

InitColour ==
  /\ pc = "convert"
  /\ Idle
  /\ \/ hsl \in HslInputs /\ rgb = NoCall
     \/ hsl = NoCall /\ rgb \in RgbInputs
  /\ back = NoCall
  /\ arg = NoCall /\ hue = NoCall /\ last = NoCall

CallHsl2rgb ==
  /\ pc = "convert"
  /\ hsl # NoCall
  /\ rgb = NoCall
  /\ rgb' = hsl2rgb(hsl[1], hsl[2], hsl[3])
  /\ UNCHANGED <<drawVars, hsl, back, hueVars>>

CallRgb2hsl ==
  /\ pc = "convert"
  /\ rgb # NoCall
  /\ back = NoCall
  /\ back' = rgb2hsl(rgb[1], rgb[2], rgb[3])
  /\ UNCHANGED <<drawVars, hsl, rgb, hueVars>>

NextColour == CallHsl2rgb \/ CallRgb2hsl

SpecColour == InitColour /\ [][NextColour]_vars

(***************************************************************************)
(* A caller of getHue: it asks for the hue at an angle, then moves the     *)
(* angle on by a small step and asks again.  arg holds redStart, theta and *)
(* style and the number of steps made; hue is the answer, NoCall before    *)
(* it comes; last is the angle and the answer of the step before.          *)
(***************************************************************************)
ThetaDiv == 8
StepDiv  == 2
MaxSteps == 2

\* quarter turns, from below 0 to beyond 360
RedStartInputs == {FromInt(90 * k) : k \in (-1)..5}

ThetaInputs == {FromInt((360 * k) \div ThetaDiv) : k \in 0..(ThetaDiv - 1)}

ThetaStep == Dec(1, StepDiv)

InitHue ==
  /\ pc = "hue"
  /\ Idle
  /\ hsl = NoCall /\ rgb = NoCall /\ back = NoCall
  /\ arg \in [redStart : RedStartInputs, theta : ThetaInputs, style : {0, 1},
              steps : {0}]
  /\ hue = NoCall
  /\ last = NoCall

CallGetHue ==
  /\ pc = "hue"
  /\ hue = NoCall
  /\ hue' = <<getHue(arg.redStart, arg.theta, arg.style)>>
  /\ UNCHANGED <<drawVars, convVars, arg, last>>

Advance ==
  /\ pc = "hue"
  /\ hue # NoCall
  /\ arg.steps < MaxSteps
  /\ last' = <<arg.theta, hue[1]>>
  /\ arg' = [arg EXCEPT !.theta = FAdd(@, ThetaStep), !.steps = @ + 1]
  /\ hue' = NoCall
  /\ UNCHANGED <<drawVars, convVars>>

NextHue == CallGetHue \/ Advance

SpecHue == InitHue /\ [][NextHue]_vars

(***************************************************************************)
(* The claims about the render.                                            *)
(***************************************************************************)

\* the offsets of the pixel that byte i of the image belongs to: the image has
\* 2 * outer_radius pixels a row, four bytes a pixel, and its centre pixel is
\* at offset (0, 0)
ByteX(c, i) == ((i \div 4) % (2 * OuterRadius(c))) - OuterRadius(c)
ByteY(c, i) == ((i \div 4) \div (2 * OuterRadius(c))) - OuterRadius(c)

InRing(c, x, y) ==
  /\ InnerRadius(c) * InnerRadius(c) <= x * x + y * y
  /\ x * x + y * y <= OuterRadius(c) * OuterRadius(c)

\* C3: only the pixels whose offset (x, y) has
\* inner_radius^2 <= x^2 + y^2 <= outer_radius^2 are written: at every point
\* of the render every byte of a pixel outside the ring still has the value,
\* zero, that it had when the image was created.
C3_OnlyRingWritten ==
  \A i \in DOMAIN pixels :
    ~InRing(cfg, ByteX(cfg, i), ByteY(cfg, i)) => pixels[i] = 0

\* a finished render of a wheel with a hole: a pixel of the ring carries the
\* opacity, and there are pixels in the hole and pixels beyond the rim
C3_Witness ==
  /\ pc = "done"
  /\ cfg.inner_radius > 0
  /\ \E i \in DOMAIN pixels :
       /\ i % 4 = 3
       /\ InRing(cfg, ByteX(cfg, i), ByteY(cfg, i))
       /\ pixels[i] = cfg.opacity
  /\ \E i \in DOMAIN pixels :
       ByteX(cfg, i) * ByteX(cfg, i) + ByteY(cfg, i) * ByteY(cfg, i)
         < InnerRadius(cfg) * InnerRadius(cfg)
  /\ \E i \in DOMAIN pixels :
       ByteX(cfg, i) * ByteX(cfg, i) + ByteY(cfg, i) * ByteY(cfg, i)
         > OuterRadius(cfg) * OuterRadius(cfg)

\* the two loops of lines 225-274 run from iteration k to the end, alone and
\* in the order of the source
RECURSIVE RunLoop(_, _, _)
RunLoop(data, c, k) ==
  IF k = Iterations(c) THEN data
  ELSE Const(LoopBody(data, c, LoopX(c, k), LoopY(c, k)), LAMBDA written :
         RunLoop(written, c, k + 1))

RenderInOrder(c) ==
  RunLoop(createImageData(2 * OuterRadius(c), 2 * OuterRadius(c)), c, 0)

\* the four bytes that the iteration at offsets (x, y) stores into
Slot(c, x, y) == Index(c, x, y)..(Index(c, x, y) + 3)

Offsets(c) == (-OuterRadius(c))..(OuterRadius(c) - 1)

\* C8: the slots of distinct offsets of the loop are disjoint and lie inside
\* the image of (2 * outer_radius)^2 * 4 bytes, and whatever the order in which
\* the workers' iterations interleave, the image that reaches the canvas is the
\* one the loop of the source produces running alone and in order.
C8_OrderIndependent ==
  /\ \A x1 \in Offsets(cfg), y1 \in Offsets(cfg) :
       /\ Slot(cfg, x1, y1) \subseteq 0..(Iterations(cfg) * 4 - 1)
       /\ \A x2 \in Offsets(cfg), y2 \in Offsets(cfg) :
            <<x1, y1>> # <<x2, y2>>
              => Slot(cfg, x1, y1) \cap Slot(cfg, x2, y2) = {}
  /\ pc = "done" => canvas = RenderInOrder(cfg)

\* several workers have shared a render that drew something, and it is over
C8_Witness ==
  /\ pc = "done"
  /\ plan.workers > 1
  /\ canvas = RenderInOrder(cfg)
  /\ \E i \in DOMAIN canvas : canvas[i] # 0

(***************************************************************************)
(* The claims about the converters.                                        *)
(***************************************************************************)
InTurn(h) == FLe(F0, h) /\ FLt(h, F360)
InUnit(v) == FLe(F0, v) /\ FLe(v, F1)
Bytes == 0..255

\* the caller has converted a colour of the documented domain to channels
Converted ==
  hsl # NoCall /\ rgb # NoCall /\ InTurn(hsl[1]) /\ InUnit(hsl[2]) /\ InUnit(hsl[3])

\* C2: for a hue in [0,360) and a saturation and a lightness in [0,1] the
\* three channels that hsl2rgb returns are integers in 0..255.
C2_ChannelsInRange ==
  Converted => \A i \in 1..3 : rgb[i] \in Bytes

\* the distance of two hues around the turn is at most 5 degrees
HueClose(h1, h2) ==
  LET d == FAbs(FSub(h1, h2)) IN FLe(d, FromInt(5)) \/ FGe(d, FromInt(355))

Close(v1, v2) == FLe(FAbs(FSub(v1, v2)), Dec(5, 100))

\* the colour went to channels and the channels came back as a colour
RoundTrip == Converted /\ back # NoCall

\* far enough from the greys for the channels to hold the hue
Chromatic ==
  /\ FGe(hsl[2], Half)
  /\ FLe(Dec(25, 100), hsl[3])
  /\ FLe(hsl[3], Dec(75, 100))

Analysed == rgb # NoCall /\ back # NoCall /\ \A i \in 1..3 : rgb[i] \in Bytes

Percent(n) == FMul(FromInt(n), Dec(1, 100))

\* the multiples of 5 from 0 to top
Fives(top) == {n \in 0..top : n % 5 = 0}

\* C7 as stated: the hue is a multiple of 5 degrees and the saturation and
\* the lightness are multiples of 5 percent.
C7_MultiplesOfFive ==
  Analysed =>
    /\ back[1] \in Fives(360)
    /\ \E n \in Fives(100) : back[2] = Percent(n)
    /\ \E n \in Fives(100) : back[3] = Percent(n)

\* Math.floor(v + 0.5): v rounded to the nearest integer, halves going up
HalfUp(v) == Floor(FAdd(v, Half))

\* C7: the hue is a whole number of degrees and the saturation and the
\* lightness are whole numbers of percent, each the unrounded value rounded to
\* the nearest integer with halves going up.
C7_RoundedToInteger ==
  Analysed =>
    LET u == UnroundedHsl(rgb[1], rgb[2], rgb[3])
    IN  /\ back[1] = HalfUp(u[1])
        /\ back[2] = Percent(HalfUp(FMul(u[2], F100)))
        /\ back[3] = Percent(HalfUp(FMul(u[3], F100)))

\* rgb2hsl has answered with a hue that is no multiple of 5
C7_Witness ==
  /\ Analysed
  /\ hsl = NoCall
  /\ back[1] % 5 # 0

\* the sector of the hue is none of the cases of the switch
OutOfSector == hsl # NoCall /\ rgb # NoCall /\ Floor(FDiv(hsl[1], F60)) \notin 0..6

\* C9 as stated: a hue whose sector is outside 0..6 gives black.
C9_OutOfSectorBlack ==
  OutOfSector => rgb = <<0, 0, 0>>

\* C9: a hue whose sector is outside 0..6 gives a grey: three equal channels,
\* each the floor of 255 times lightness - chroma / 2.
C9_OutOfSectorGrey ==
  OutOfSector =>
    /\ rgb[1] = rgb[2]
    /\ rgb[2] = rgb[3]
    /\ rgb[1] = Floor(FMul(FSub(hsl[3], FMul(Chroma(hsl[2], hsl[3]), Half)), F255))

\* a hue out of the sectors, negative or beyond 420, has given a grey that is
\* not black
C9_Witness ==
  /\ OutOfSector
  /\ rgb[1] > 0
  /\ FGt(hsl[2], F0)

\* C10: hsl2rgb(360, s, l) returns the channels of hsl2rgb(0, s, l).
C10_Hue360LikeHue0 ==
  (hsl # NoCall /\ rgb # NoCall /\ hsl[1] = F360)
    => rgb = hsl2rgb(F0, hsl[2], hsl[3])

\* hue 360 has given a colour that is no grey
C10_Witness ==
  /\ hsl # NoCall
  /\ rgb # NoCall
  /\ hsl[1] = F360
  /\ rgb[1] # rgb[2]

(***************************************************************************)
(* The claims about getHue.                                                *)
(***************************************************************************)

\* C1: the hue that getHue returns is in [0,360), whatever redStart, theta
\* and style.
C1_HueInRange ==
  hue # NoCall => InTurn(hue[1])

\* C5: getHue(redStart, theta, style) is 0 when theta is redStart, for every
\* redStart in [0,360), 0 included, and both styles.
C5_RedAtRedStart ==
  (hue # NoCall /\ arg.theta = arg.redStart /\ InTurn(arg.redStart))
    => hue[1] = F0

\* C4: from a theta in [0,360), 0 included, a small step on makes the hue
\* smaller under style 1 and larger under style 0, unless the hue wraps
\* between 0 and 360 on the way.
C4_StepMovesHue ==
  (hue # NoCall /\ last # NoCall /\ InTurn(last[1])) =>
    IF arg.style # 0
    THEN \/ FLt(hue[1], last[2])
         \/ FLt(last[2], ThetaStep) /\ FGe(hue[1], FSub(F360, ThetaStep))
    ELSE \/ FGt(hue[1], last[2])
         \/ FGe(last[2], FSub(F360, ThetaStep)) /\ FLt(hue[1], ThetaStep)
====
